---- MODULE Spec2Model ----
(***************************************************************************)
(* Election analysis (src/election.py): the election queries              *)
(* (election_winner, winner_states, ec_votes_to_flip, combinations),       *)
(* exhaustive swing-state search, the memoised weight-bounded selector     *)
(* with its process-wide memo, the complement formulation, and the greedy  *)
(* voter relocation planner.                                               *)
(*                                                                         *)
(* A State instance is a record [name, dem, rep, ec].  Python lists and    *)
(* tuples are sequences; `None` is the empty option <<>> and a present     *)
(* value v is the option <<v>>.                                            *)
(***************************************************************************)
EXTENDS Integers, Sequences, FiniteSets, TLC

VARIABLES
    memo,          \* the default-argument dict of access_memo (process-wide)
    ncalls,        \* number of solver calls made so far in this process
    call,          \* the last completed call: [op, ws, arg, ret, fresh]
    noted,         \* None, or the call a caller kept to compare a repetition with
    election,      \* the list of State instances given to relocate_voters
    swing_states,  \* its swing_states argument: positions in election
    pride,         \* its states_with_pride argument
    pc,            \* where the relocate_voters call stands
    losing_states, \* positions in election of the states not won by the winner
    l_margins,     \* the planner's own record of each losing state's margin
    si,            \* position in swing_states of the state being served
    di,            \* index i of the inner loop over losing_states
    voters_needed, \* demand of the current swing state still open
    total_moved,
    flip_map,      \* (from_state, to_state) -> voters moved
    ec_gain,
    result,        \* None, or the (total_moved, flip_map, ec_gain) tuple
    election0      \* the election as it was when the call started

solver_vars == <<memo, ncalls, call, noted>>

planner_vars == <<election, swing_states, pride, pc, losing_states, l_margins, si, di,
                  voters_needed, total_moved, flip_map, ec_gain, result, election0>>

vars == <<solver_vars, planner_vars>>

-----------------------------------------------------------------------------
(* Bounds of the model *)

MaxLen == 3        \* longest list of winner-held states given to a solver
MaxEC == 2         \* largest number of EC votes of one state
MaxMargin == 2     \* largest margin of one state
MaxCalls == 2      \* solver calls in one process (memo persists across them)
MemoLen == 2       \* longest list in the runs with several calls
PlanLen == 3       \* most states in an election given to the planner
PlanMargin == 3    \* largest margin of a state of such an election
QueryLen == 3      \* most states in an election given to the election queries
MaxTotal == 5      \* largest `total` given to ec_votes_to_flip, the default aside
RepLen == 2        \* longest list in the runs that repeat a call

-----------------------------------------------------------------------------
(* class State (module state, imported by election.py) *)

Abs(x) == IF x < 0 THEN 0 - x ELSE x

get_name(state) == state.name

get_ecvotes(state) == state.ec

get_margin(state) == Abs(state.dem - state.rep)

get_winner(state) == IF state.dem > state.rep THEN "dem" ELSE "rep"

\* `state in L` / `state not in L` on a Python list: equality with an element
In(state, L) == \E k \in 1..Len(L) : L[k] = state

None == <<>>
Some(v) == <<v>>

\* the outcome of a call that raised the exception named by `error`
Raised(error) == [raised |-> error]

-----------------------------------------------------------------------------
(* combinations(L) *)

RECURSIVE BinDigits(_)
\* the while loop of get_binary_representation: most significant digit first
BinDigits(n) == IF n > 0 THEN Append(BinDigits(n \div 2), n % 2) ELSE <<>>

RECURSIVE PadZeros(_, _)
PadZeros(digits, k) == IF k > 0 THEN PadZeros(<<0>> \o digits, k - 1) ELSE digits

\* the digits least significant first (mutation of get_binary_representation)
get_binary_representation_lsb_first(n, num_digits) ==
    LET msb == PadZeros(BinDigits(n), num_digits - Len(BinDigits(n)))
    IN  [k \in 1..Len(msb) |-> msb[Len(msb) + 1 - k]]

\* the digit string, or ValueError('not enough digits') when n has more than
\* num_digits binary digits
get_binary_representation(n, num_digits) ==
    LET digits == BinDigits(n)
    IN  IF Len(digits) > num_digits THEN Raised("ValueError")
        ELSE PadZeros(digits, num_digits - Len(digits))

RECURSIVE SubsetOf(_, _, _)
\* the inner loop over j: keep L[j] where binStr[j] is '1'
SubsetOf(L, binStr, j) ==
    IF j > Len(L) THEN <<>>
    ELSE IF binStr[j] = 1 THEN <<L[j]>> \o SubsetOf(L, binStr, j + 1)
         ELSE SubsetOf(L, binStr, j + 1)

\* i ranges over range(2**len(L)), so i has at most len(L) binary digits and
\* get_binary_representation returns a string for every i
combinations(L) ==
    [i \in 1..(2 ^ Len(L)) |->
        SubsetOf(L, get_binary_representation(i - 1, Len(L)), 1)]

-----------------------------------------------------------------------------
(* sums over lists of states *)

RECURSIVE SumEc(_)
SumEc(L) == IF L = <<>> THEN 0 ELSE get_ecvotes(Head(L)) + SumEc(Tail(L))

RECURSIVE SumMargin(_)
SumMargin(L) == IF L = <<>> THEN 0 ELSE get_margin(Head(L)) + SumMargin(Tail(L))

RECURSIVE SumVoters(_)
\* sum([state.get_margin()+1 for state in L])
SumVoters(L) == IF L = <<>> THEN 0 ELSE (get_margin(Head(L)) + 1) + SumVoters(Tail(L))

-----------------------------------------------------------------------------
(* brute_force_swing_states(winner_states, ec_votes) *)

\* the quantity the loop accumulates in moved_voters for one combo
MovedVoters(combo) == SumMargin(combo)

RECURSIVE BruteLoop(_, _, _, _, _)
\* the loop over possible_move_combinations from index k on; min_voters is
\* an option (None until a first combo qualifies)
BruteLoop(combos, k, ec_votes, best_combo, min_voters) ==
    IF k > Len(combos) THEN best_combo
    ELSE LET combo == combos[k]
             flipped_votes == SumEc(combo)
             moved_voters == MovedVoters(combo)
         IN  IF flipped_votes >= ec_votes
                /\ (min_voters = None \/ moved_voters < min_voters[1])
             THEN BruteLoop(combos, k + 1, ec_votes, combo, Some(moved_voters))
             ELSE BruteLoop(combos, k + 1, ec_votes, best_combo, min_voters)

brute_force_swing_states(winner_states, ec_votes) ==
    BruteLoop(combinations(winner_states), 1, ec_votes, <<>>, None)

-----------------------------------------------------------------------------
(* access_memo and move_max_voters; the memo dict is threaded through *)

EmptyMemo == [k \in {} |-> <<>>]

\* a memo that records an empty list for every solution (mutation of
\* access_memo)
access_memo_blank(key_tuple, solution, m) ==
    IF key_tuple \in DOMAIN m /\ solution = None
    THEN [ret |-> Some(m[key_tuple]), memo |-> m]
    ELSE IF key_tuple \notin DOMAIN m /\ solution = None
    THEN [ret |-> None, memo |-> m]
    ELSE [ret |-> None,
          memo |-> [k \in DOMAIN m \cup {key_tuple} |->
                       IF k = key_tuple THEN <<>> ELSE m[k]]]

\* returns the value returned and the dict afterwards; called by
\* move_max_voters only (lines 209, 210, 234)
access_memo(key_tuple, solution, m) ==
    IF key_tuple \in DOMAIN m /\ solution = None
    THEN [ret |-> Some(m[key_tuple]), memo |-> m]
    ELSE IF key_tuple \notin DOMAIN m /\ solution = None
    THEN [ret |-> None, memo |-> m]
    ELSE [ret |-> None,
          memo |-> [k \in DOMAIN m \cup {key_tuple} |->
                       IF k = key_tuple THEN solution[1] ELSE m[k]]]

\* a selector that keeps the branch of lower value (mutation of TakeState)
TakeState_lower(val, stateless_val) == val < stateless_val

\* `val > stateless_val`: the comparison that picks the branch with the state
TakeState(val, stateless_val) == val > stateless_val

\* a memo keyed by the bound alone (mutation of MemoKey)
MemoKey_bound_only(winner_states, ec_votes) == <<0, ec_votes>>

\* the key (len(winner_states), ec_votes) of a memo entry
MemoKey(winner_states, ec_votes) == <<Len(winner_states), ec_votes>>

RECURSIVE move_max_voters(_, _, _)
\* returns [ret |-> the list returned, memo |-> the dict afterwards]
move_max_voters(winner_states, ec_votes, m) ==
    LET key == MemoKey(winner_states, ec_votes)
        hit == access_memo(key, None, m)
        out ==
            IF hit.ret # None THEN [solution |-> hit.ret[1], memo |-> m]
            ELSE IF winner_states = <<>> \/ ec_votes = 0
            THEN [solution |-> <<>>, memo |-> m]
            ELSE IF get_ecvotes(winner_states[1]) > ec_votes
            THEN LET r == move_max_voters(Tail(winner_states), ec_votes, m)
                 IN  [solution |-> r.ret, memo |-> r.memo]
            ELSE LET next_state == winner_states[1]
                     new_weight_lim == ec_votes - get_ecvotes(next_state)
                     w == move_max_voters(Tail(winner_states), new_weight_lim, m)
                     with_state == w.ret
                     val == SumVoters(with_state) + (get_margin(next_state) + 1)
                     n == move_max_voters(Tail(winner_states), ec_votes, w.memo)
                     no_state == n.ret
                     stateless_val == SumVoters(no_state)
                 IN  IF TakeState(val, stateless_val)
                     THEN [solution |-> Append(with_state, next_state), memo |-> n.memo]
                     ELSE [solution |-> no_state, memo |-> n.memo]
    IN  [ret |-> out.solution,
         memo |-> access_memo(key, Some(out.solution), out.memo).memo]

-----------------------------------------------------------------------------
(* move_min_voters(winner_states, ec_votes_needed) *)

RECURSIVE NotIn(_, _)
\* [state for state in L if state not in excluded], in the order of L
NotIn(L, excluded) ==
    IF L = <<>> THEN <<>>
    ELSE IF In(Head(L), excluded) THEN NotIn(Tail(L), excluded)
         ELSE <<Head(L)>> \o NotIn(Tail(L), excluded)

move_min_voters(winner_states, ec_votes_needed, m) ==
    LET total_votes_won == SumEc(winner_states)
        max_ec_votes == total_votes_won - ec_votes_needed
        r == move_max_voters(winner_states, max_ec_votes, m)
        non_swing_states == r.ret
    IN  [ret |-> NotIn(winner_states, non_swing_states), memo |-> r.memo]

-----------------------------------------------------------------------------
(* Inputs: lists of winner-held states *)

StateNames == <<"FL", "NY", "OH", "PA", "WA", "GA">>

\* a state won by the candidate `side` by `margin` votes
MkState(nm, side, margin, e) ==
    [name |-> nm,
     dem |-> IF side = "dem" THEN margin ELSE 0,
     rep |-> IF side = "rep" THEN margin ELSE 0,
     ec |-> e]

\* what a state of a list is drawn from: its margin and its EC votes
StateChoices == (1..MaxMargin) \X (1..MaxEC)

\* a list of n states with distinct names, all won by the same side; f gives
\* each state its margin and its EC votes
MkList(n, f) ==
    [k \in 1..n |-> MkState(StateNames[k], "dem", f[k][1], f[k][2])]

-----------------------------------------------------------------------------
(* election_winner(election) and winner_states(election) *)

RECURSIVE EcVotesOf(_, _)
\* the EC votes the loop of election_winner adds up for `side`; every state
\* whose winner is not 'dem' counts for 'rep'
EcVotesOf(el, side) ==
    IF el = <<>> THEN 0
    ELSE (IF (get_winner(Head(el)) = "dem") = (side = "dem")
          THEN get_ecvotes(Head(el)) ELSE 0) + EcVotesOf(Tail(el), side)

election_winner(el) ==
    LET dem_votes == EcVotesOf(el, "dem")
        rep_votes == EcVotesOf(el, "rep")
    IN  IF dem_votes > rep_votes THEN <<"dem", "rep">> ELSE <<"rep", "dem">>

\* the positions k, in order, where keep[k] holds
RECURSIVE PositionsFrom(_, _)
PositionsFrom(keep, k) ==
    IF k > Len(keep) THEN <<>>
    ELSE IF keep[k] THEN <<k>> \o PositionsFrom(keep, k + 1)
         ELSE PositionsFrom(keep, k + 1)

\* the list winner_states returns, as positions in `el`
WinnerPositions(el) ==
    LET winner == election_winner(el)[1]
    IN  PositionsFrom([k \in 1..Len(el) |-> get_winner(el[k]) = winner], 1)

StatesAt(el, positions) == [k \in 1..Len(positions) |-> el[positions[k]]]

winner_states(el) == StatesAt(el, WinnerPositions(el))

-----------------------------------------------------------------------------
(* ec_votes_to_flip(election, total) *)

\* the default of the parameter total
DefaultTotal == 538

\* lines 79-82: the EC votes of the states that are not in winners_states
LoserVotes(el) == SumEc(NotIn(el, winner_states(el)))

\* int(x) of the float x = twice/2: the fraction is dropped, toward zero
IntOfHalf(twice) ==
    IF twice >= 0 THEN twice \div 2 ELSE 0 - ((0 - twice) \div 2)

\* (total/2 + 1) - loser_votes is the float (total + 2 - 2*loser_votes)/2
ec_votes_to_flip(el, total) == IntOfHalf(total + 2 - 2 * LoserVotes(el))

-----------------------------------------------------------------------------
(* State.subtract_winning_candidate_voters / add_losing_candidate_voters *)

subtract_winning_candidate_voters(state, voters) ==
    IF get_winner(state) = "dem"
    THEN [state EXCEPT !.dem = @ - voters]
    ELSE [state EXCEPT !.rep = @ - voters]

add_losing_candidate_voters(state, voters) ==
    IF get_winner(state) = "dem"
    THEN [state EXCEPT !.rep = @ + voters]
    ELSE [state EXCEPT !.dem = @ + voters]

-----------------------------------------------------------------------------
(* relocate_voters(election, swing_states, states_with_pride): one step per *)
(* pass through the loop over losing_states                                 *)

\* the default of the parameter states_with_pride
states_with_pride == <<"AL", "AZ", "CA", "TX">>

\* the lists given as states_with_pride: the default, none, another one
PrideLists == {states_with_pride, <<>>, <<"NY", "FL">>}

PlanNames == <<"FL", "AL", "NY", "TX", "OH">>

EmptyMap == [k \in {} |-> 0]

\* a map keyed by the recipient alone (mutation of SetItem)
SetItem_by_recipient(map, key, moved) ==
    [k \in DOMAIN map \cup {<<key[2], key[2]>>} |->
        IF k = <<key[2], key[2]>> THEN moved ELSE map[k]]

\* flip_map[key] = moved
SetItem(map, key, moved) ==
    [k \in DOMAIN map \cup {key} |-> IF k = key THEN moved ELSE map[k]]

\* what is left of the demand after a donor gave all its slack (`moved`)
DemandAfter(needed, moved) == needed % moved

\* a donor that gives its whole margin (mutation of SlackOf)
SlackOf_whole_margin(margin) == margin

\* l_margins[i]-1: what a donor may give and still win its state
SlackOf(margin) == margin - 1

\* a planner that protects no state (mutation of InPride)
InPride_nobody(nm) == FALSE

\* `get_name() in states_with_pride`
InPride(nm) == \E k \in 1..Len(pride) : pride[k] = nm

\* the planner's test for a donor without slack
NoSlack(margin) == margin = 1

PlannerIdle ==
    /\ election = <<>>
    /\ election0 = <<>>
    /\ swing_states = <<>>
    /\ pride = states_with_pride
    /\ pc = "idle"
    /\ losing_states = <<>>
    /\ l_margins = <<>>
    /\ si = 0
    /\ di = 0
    /\ voters_needed = 0
    /\ total_moved = 0
    /\ flip_map = EmptyMap
    /\ ec_gain = 0
    /\ result = None

\* lines 300-306: the locals before the loops
RelocateStart ==
    /\ pc = "start"
    /\ LET winners_states == winner_states(election)
           ls == PositionsFrom([k \in 1..Len(election) |->
                                   ~In(election[k], winners_states)], 1)
       IN  /\ losing_states' = ls
           /\ l_margins' = [k \in 1..Len(ls) |-> get_margin(election[ls[k]])]
    /\ total_moved' = 0
    /\ flip_map' = EmptyMap
    /\ ec_gain' = 0
    /\ si' = 1
    /\ pc' = "swing"
    /\ UNCHANGED <<solver_vars, pride, election, election0, swing_states, di, voters_needed, result>>

\* line 308-309: the next swing state, its demand
NextSwing ==
    /\ pc = "swing"
    /\ si <= Len(swing_states)
    /\ voters_needed' = get_margin(election[swing_states[si]]) + 1
    /\ di' = 1
    /\ pc' = "donor"
    /\ UNCHANGED <<solver_vars, pride, election, election0, swing_states, losing_states, l_margins, si,
                   total_moved, flip_map, ec_gain, result>>

\* line 338: every swing state served
ReturnPlan ==
    /\ pc = "swing"
    /\ si > Len(swing_states)
    /\ result' = Some(<<total_moved, flip_map, ec_gain>>)
    /\ pc' = "done"
    /\ UNCHANGED <<solver_vars, pride, election, election0, swing_states, losing_states, l_margins, si, di,
                   voters_needed, total_moved, flip_map, ec_gain>>

\* lines 311-312: a state with pride gives nothing
SkipPride ==
    /\ pc = "donor"
    /\ di <= Len(losing_states)
    /\ InPride(get_name(election[losing_states[di]]))
    /\ di' = di + 1
    /\ UNCHANGED <<solver_vars, pride, election, election0, swing_states, pc, losing_states, l_margins, si,
                   voters_needed, total_moved, flip_map, ec_gain, result>>

\* lines 314-315: a donor whose margin is 1 gives nothing
SkipNoSlack ==
    /\ pc = "donor"
    /\ di <= Len(losing_states)
    /\ ~InPride(get_name(election[losing_states[di]]))
    /\ NoSlack(l_margins[di])
    /\ di' = di + 1
    /\ UNCHANGED <<solver_vars, pride, election, election0, swing_states, pc, losing_states, l_margins, si,
                   voters_needed, total_moved, flip_map, ec_gain, result>>

\* both branches end the same way: line 332-333, break when nothing is needed
AfterDonation ==
    IF voters_needed' = 0
    THEN pc' = "check" /\ di' = di
    ELSE pc' = "donor" /\ di' = di + 1

\* lines 316-323: the donor covers all of the open demand
DonateNeeded ==
    /\ pc = "donor"
    /\ di <= Len(losing_states)
    /\ ~InPride(get_name(election[losing_states[di]]))
    /\ ~NoSlack(l_margins[di])
    /\ l_margins[di] > voters_needed
    /\ LET from == losing_states[di]
           to == swing_states[si]
           moved == voters_needed
           e1 == [election EXCEPT
                    ![from] = subtract_winning_candidate_voters(@, voters_needed)]
       IN  /\ election' = [e1 EXCEPT
                             ![to] = add_losing_candidate_voters(@, voters_needed)]
           /\ total_moved' = total_moved + moved
           /\ flip_map' = SetItem(flip_map,
                                  <<get_name(election[from]), get_name(election[to])>>,
                                  moved)
           /\ voters_needed' = 0
           /\ l_margins' = [l_margins EXCEPT ![di] = @ - moved]
    /\ AfterDonation
    /\ UNCHANGED <<solver_vars, pride, election0, swing_states, losing_states, si, ec_gain, result>>

\* lines 324-331: the donor gives all its slack
DonateSlack ==
    /\ pc = "donor"
    /\ di <= Len(losing_states)
    /\ ~InPride(get_name(election[losing_states[di]]))
    /\ ~NoSlack(l_margins[di])
    /\ ~(l_margins[di] > voters_needed)
    /\ LET from == losing_states[di]
           to == swing_states[si]
           moved == SlackOf(l_margins[di])
           e1 == [election EXCEPT
                    ![from] = subtract_winning_candidate_voters(@, SlackOf(l_margins[di]))]
       IN  /\ election' = [e1 EXCEPT
                             ![to] = add_losing_candidate_voters(@, SlackOf(l_margins[di]))]
           /\ total_moved' = total_moved + moved
           /\ flip_map' = SetItem(flip_map,
                                  <<get_name(election[from]), get_name(election[to])>>,
                                  moved)
           /\ voters_needed' = DemandAfter(voters_needed, moved)
           /\ l_margins' = [l_margins EXCEPT ![di] = 1]
    /\ AfterDonation
    /\ UNCHANGED <<solver_vars, pride, election0, swing_states, losing_states, si, ec_gain, result>>

\* the loop over losing_states ran out
DonorsExhausted ==
    /\ pc = "donor"
    /\ di > Len(losing_states)
    /\ pc' = "check"
    /\ UNCHANGED <<solver_vars, pride, election, election0, swing_states, losing_states, l_margins, si, di,
                   voters_needed, total_moved, flip_map, ec_gain, result>>

\* lines 336-337: the swing state is served
SwingServed ==
    /\ pc = "check"
    /\ voters_needed = 0
    /\ ec_gain' = ec_gain + get_ecvotes(election[swing_states[si]])
    /\ si' = si + 1
    /\ pc' = "swing"
    /\ UNCHANGED <<solver_vars, pride, election, election0, swing_states, losing_states, l_margins, di,
                   voters_needed, total_moved, flip_map, result>>

\* a handler that restores the records it was given (mutation of
\* RecordsOnFailure)
RecordsOnFailure_restored(records, records0) == records0

\* the except clause only returns None: the records stay as the transfers
\* made so far left them
RecordsOnFailure(records, records0) == records

\* lines 334-335 and 339-340: AssertionError, caught, None returned
Infeasible ==
    /\ pc = "check"
    /\ voters_needed # 0
    /\ result' = None
    /\ pc' = "failed"
    /\ election' = RecordsOnFailure(election, election0)
    /\ UNCHANGED <<solver_vars, pride, election0, swing_states, losing_states, l_margins, si, di,
                   voters_needed, total_moved, flip_map, ec_gain>>

-----------------------------------------------------------------------------
(* The process: solver calls one after another, sharing the memo *)

NoCall == [op |-> "none", ws |-> <<>>, arg |-> 0, ret |-> <<>>, fresh |-> TRUE]

Init ==
    /\ memo = EmptyMemo
    /\ ncalls = 0
    /\ call = NoCall
    /\ noted = None
    /\ PlannerIdle

CallBruteForce(ws, ec_votes) ==
    /\ call' = [op |-> "brute_force_swing_states", ws |-> ws, arg |-> ec_votes,
                ret |-> brute_force_swing_states(ws, ec_votes),
                fresh |-> (memo = EmptyMemo)]
    /\ ncalls' = ncalls + 1
    /\ UNCHANGED <<memo, noted, planner_vars>>

CallMoveMax(ws, ec_votes) ==
    LET r == move_max_voters(ws, ec_votes, memo)
    IN  /\ call' = [op |-> "move_max_voters", ws |-> ws, arg |-> ec_votes,
                    ret |-> r.ret, fresh |-> (memo = EmptyMemo)]
        /\ memo' = r.memo
        /\ ncalls' = ncalls + 1
        /\ UNCHANGED <<noted, planner_vars>>

CallMoveMin(ws, ec_votes_needed) ==
    LET r == move_min_voters(ws, ec_votes_needed, memo)
    IN  /\ call' = [op |-> "move_min_voters", ws |-> ws, arg |-> ec_votes_needed,
                    ret |-> r.ret, fresh |-> (memo = EmptyMemo)]
        /\ memo' = r.memo
        /\ ncalls' = ncalls + 1
        /\ UNCHANGED <<noted, planner_vars>>

\* access_memo called by a caller of the module (it is a module-level
\* function, and its dict is the one move_max_voters uses): solution is None
\* for a lookup, Some(list) to record the list under key_tuple
CallAccessMemo(key_tuple, solution) ==
    LET r == access_memo(key_tuple, solution, memo)
    IN  /\ call' = [op |-> "access_memo", ws |-> solution, arg |-> key_tuple,
                    ret |-> r.ret, fresh |-> (memo = EmptyMemo)]
        /\ memo' = r.memo
        /\ ncalls' = ncalls + 1
        /\ UNCHANGED planner_vars

\* calls on a list of at most `maxlen` states, at most `limit` calls in a run
BruteForceCall(maxlen, limit) ==
    /\ ncalls < limit
    /\ \E n \in 0..maxlen : \E f \in [1..n -> StateChoices] :
          LET ws == MkList(n, f)
          IN  \E ec_votes \in -1..(SumEc(ws) + 1) : CallBruteForce(ws, ec_votes)

MoveMaxCall(maxlen, limit) ==
    /\ ncalls < limit
    /\ \E n \in 0..maxlen : \E f \in [1..n -> StateChoices] :
          LET ws == MkList(n, f)
          IN  \E ec_votes \in 0..(SumEc(ws) + 1) : CallMoveMax(ws, ec_votes)

MoveMinCall(maxlen, limit) ==
    /\ ncalls < limit
    /\ \E n \in 0..maxlen : \E f \in [1..n -> StateChoices] :
          LET ws == MkList(n, f)
          IN  \E ec_votes_needed \in -1..(SumEc(ws) + 1) :
                 CallMoveMin(ws, ec_votes_needed)

\* calls of access_memo from outside move_max_voters: any key (length,
\* bound) of the calls above, a lookup or one of their lists as the solution
AccessMemoCall(maxlen, limit) ==
    /\ ncalls < limit
    /\ \E n \in 0..maxlen : \E f \in [1..n -> StateChoices] :
          LET ws == MkList(n, f)
          IN  \E len \in 0..maxlen : \E ec_votes \in 0..(SumEc(ws) + 1) :
                 \E solution \in {None, Some(ws)} :
                    CallAccessMemo(<<len, ec_votes>>, solution)
    /\ UNCHANGED noted

\* several calls in one process
Next ==
    \/ BruteForceCall(MemoLen, MaxCalls)
    \/ MoveMaxCall(MemoLen, MaxCalls)
    \/ MoveMinCall(MemoLen, MaxCalls)
    \/ AccessMemoCall(MemoLen, MaxCalls)

Spec == Init /\ [][Next]_vars

\* a single call in a fresh process (the memo is empty when it starts)
NextSolver ==
    \/ BruteForceCall(MaxLen, 1)
    \/ MoveMaxCall(MaxLen, 1)
    \/ MoveMinCall(MaxLen, 1)

SpecSolver == Init /\ [][NextSolver]_vars

-----------------------------------------------------------------------------
(* The election queries: one call on an election in a fresh process.  The  *)
(* call is recorded with ret a record of one field, named after the kind   *)
(* of outcome: [pair |-> ..], [states |-> ..], [votes |-> ..],             *)
(* [powerset |-> ..] for a value returned, [raised |-> ..] for an          *)
(* exception.                                                              *)

\* what a record of an election is drawn from: its local winner, its EC votes
RecordChoices == {"dem", "rep"} \X (1..MaxEC)

\* an election of n states with distinct names, each won by a margin of 1
MkRecords(n, f) ==
    [k \in 1..n |-> MkState(StateNames[k], f[k][1], 1, f[k][2])]

Query(op, el, arg, outcome) ==
    /\ call' = [op |-> op, ws |-> el, arg |-> arg, ret |-> outcome,
                fresh |-> (memo = EmptyMemo)]
    /\ ncalls' = ncalls + 1
    /\ UNCHANGED <<memo, noted, planner_vars>>

ElectionWinnerCall ==
    /\ ncalls = 0
    /\ \E n \in 0..QueryLen : \E f \in [1..n -> RecordChoices] :
          LET el == MkRecords(n, f)
          IN  Query("election_winner", el, 0, [pair |-> election_winner(el)])

WinnerStatesCall ==
    /\ ncalls = 0
    /\ \E n \in 0..QueryLen : \E f \in [1..n -> RecordChoices] :
          LET el == MkRecords(n, f)
          IN  Query("winner_states", el, 0, [states |-> winner_states(el)])

EcVotesToFlipCall ==
    /\ ncalls = 0
    /\ \E n \in 0..QueryLen : \E f \in [1..n -> RecordChoices] :
          LET el == MkRecords(n, f)
          IN  \E total \in 0..MaxTotal :
                 Query("ec_votes_to_flip", el, total,
                       [votes |-> ec_votes_to_flip(el, total)])

\* the call that leaves total to its default
EcVotesToFlipDefaultCall ==
    /\ ncalls = 0
    /\ \E n \in 0..QueryLen : \E f \in [1..n -> RecordChoices] :
          LET el == MkRecords(n, f)
          IN  Query("ec_votes_to_flip", el, DefaultTotal,
                    [votes |-> ec_votes_to_flip(el, DefaultTotal)])

CombinationsCall ==
    /\ ncalls = 0
    /\ \E n \in 0..QueryLen : \E f \in [1..n -> RecordChoices] :
          LET L == MkRecords(n, f)
          IN  Query("combinations", L, 0, [powerset |-> combinations(L)])

NextQuery ==
    \/ ElectionWinnerCall
    \/ WinnerStatesCall
    \/ EcVotesToFlipCall
    \/ EcVotesToFlipDefaultCall
    \/ CombinationsCall

SpecQuery == Init /\ [][NextQuery]_vars

-----------------------------------------------------------------------------
(* Repeating a call: a caller makes up to two calls (the solvers, or       *)
(* access_memo itself), keeps one call of brute_force_swing_states or      *)
(* move_min_voters with what it returned, and makes that call again on the *)
(* same list. Within the module access_memo is called by move_max_voters   *)
(* only (lines 209, 210, 234); the caller's notes record whether a list    *)
(* was stored through access_memo from outside it after the kept call      *)

\* a list of n states with distinct names, the k-th with k EC votes; f gives
\* each state its margin
MkWeighted(n, f) ==
    [k \in 1..n |-> MkState(StateNames[k], "dem", f[k], k)]

OtherBruteForceCall ==
    /\ ncalls < 2
    /\ \E n \in 0..RepLen : \E f \in [1..n -> 1..MaxMargin] :
          LET ws == MkWeighted(n, f)
          IN  \E ec_votes \in -1..(SumEc(ws) + 1) : CallBruteForce(ws, ec_votes)

OtherMoveMaxCall ==
    /\ ncalls < 2
    /\ \E n \in 0..RepLen : \E f \in [1..n -> 1..MaxMargin] :
          LET ws == MkWeighted(n, f)
          IN  \E ec_votes \in 0..(SumEc(ws) + 1) : CallMoveMax(ws, ec_votes)

OtherMoveMinCall ==
    /\ ncalls < 2
    /\ \E n \in 0..RepLen : \E f \in [1..n -> 1..MaxMargin] :
          LET ws == MkWeighted(n, f)
          IN  \E ec_votes_needed \in -1..(SumEc(ws) + 1) :
                 CallMoveMin(ws, ec_votes_needed)

\* access_memo called from outside move_max_voters: a lookup, or a list of at
\* most one state stored, under any key (length, bound) a call on a list of
\* at most RepLen states may use
OtherAccessMemoCall ==
    /\ ncalls < 2
    /\ \E n \in 0..1 : \E f \in [1..n -> 1..MaxMargin] :
          LET ws == MkWeighted(n, f)
          IN  \E len \in 0..RepLen : \E ec_votes \in 0..(RepLen + 1) :
                 \E solution \in {None, Some(ws)} :
                    /\ CallAccessMemo(<<len, ec_votes>>, solution)
                    /\ noted' = IF noted # None /\ solution # None
                                THEN Some([noted[1] EXCEPT !.stored = TRUE])
                                ELSE noted

\* the caller keeps the call just made: swing = move_min_voters(ws, needed)
NoteCall ==
    /\ noted = None
    /\ call.op \in {"brute_force_swing_states", "move_min_voters"}
    /\ noted' = Some([op |-> call.op, ws |-> call.ws, arg |-> call.arg,
                      ret |-> call.ret, at |-> ncalls, stored |-> FALSE])
    /\ UNCHANGED <<memo, ncalls, call, planner_vars>>

\* the kept call is made again, on the same list with the same ec_votes
RepeatBruteForce ==
    /\ noted # None
    /\ ncalls < 3
    /\ noted[1].op = "brute_force_swing_states"
    /\ CallBruteForce(noted[1].ws, noted[1].arg)

RepeatMoveMin ==
    /\ noted # None
    /\ ncalls < 3
    /\ noted[1].op = "move_min_voters"
    /\ CallMoveMin(noted[1].ws, noted[1].arg)

NextRepeat ==
    \/ OtherBruteForceCall
    \/ OtherMoveMaxCall
    \/ OtherMoveMinCall
    \/ OtherAccessMemoCall
    \/ NoteCall
    \/ RepeatBruteForce
    \/ RepeatMoveMin

SpecRepeat == Init /\ [][NextRepeat]_vars

-----------------------------------------------------------------------------
(* The planner: one call of relocate_voters on an election *)

\* the EC votes of the k-th state of an election: k
PlanWeight(k) == k

\* an election of n states with distinct names and margins >= 1; f gives each
\* state its local winner and its margin
MkElection(n, f) ==
    [k \in 1..n |-> MkState(PlanNames[k], f[k][1], f[k][2], PlanWeight(k))]

\* the sub-lists of a list of positions, in the order of combinations()
SubLists(positions) ==
    {combinations(positions)[i] : i \in 1..(2 ^ Len(positions))}

InitPlanner ==
    /\ memo = EmptyMemo
    /\ ncalls = 0
    /\ call = NoCall
    /\ noted = None
    /\ \E n \in 1..PlanLen :
         \E f \in [1..n -> {"dem", "rep"} \X (1..PlanMargin)] :
            election = MkElection(n, f)
    /\ election0 = election
    /\ swing_states \in SubLists(WinnerPositions(election))
    /\ pride \in PrideLists
    /\ pc = "start"
    /\ losing_states = <<>>
    /\ l_margins = <<>>
    /\ si = 0
    /\ di = 0
    /\ voters_needed = 0
    /\ total_moved = 0
    /\ flip_map = EmptyMap
    /\ ec_gain = 0
    /\ result = None

NextPlanner ==
    \/ RelocateStart
    \/ NextSwing
    \/ ReturnPlan
    \/ SkipPride
    \/ SkipNoSlack
    \/ DonateNeeded
    \/ DonateSlack
    \/ DonorsExhausted
    \/ SwingServed
    \/ Infeasible

SpecPlanner == InitPlanner /\ [][NextPlanner]_vars

-----------------------------------------------------------------------------
(* Reference notions for the properties below *)

\* the sub-list of ws at the positions of the set S, in the order of ws
SubAt(ws, S) == StatesAt(ws, PositionsFrom([k \in 1..Len(ws) |-> k \in S], 1))

Min(S) == CHOOSE x \in S : \A y \in S : x <= y
Max(S) == CHOOSE x \in S : \A y \in S : x >= y

\* sets of positions whose states bring at least `needed` EC votes
FlipSets(ws, needed) ==
    {S \in SUBSET (1..Len(ws)) : SumEc(SubAt(ws, S)) >= needed}

\* sets of positions whose states have at most `bound` EC votes together
BoundedSets(ws, bound) ==
    {S \in SUBSET (1..Len(ws)) : SumEc(SubAt(ws, S)) <= bound}

\* fewest voters (sum of margin + 1) that flip at least `needed` EC votes
MinVoters(ws, needed) == Min({SumVoters(SubAt(ws, S)) : S \in FlipSets(ws, needed)})

\* most voters (sum of margin + 1) within `bound` EC votes
MaxVoters(ws, bound) == Max({SumVoters(SubAt(ws, S)) : S \in BoundedSets(ws, bound)})

\* ret holds elements of ws only, none twice
IsSelectionOf(ret, ws) ==
    /\ \A k \in 1..Len(ret) : In(ret[k], ws)
    /\ \A j, k \in 1..Len(ret) : j # k => ret[j] # ret[k]

FreshCall(op) == call.op = op /\ call.fresh

-----------------------------------------------------------------------------
(* Properties of the solvers *)

\* C1: a move_min_voters call that started with an empty memo returns a swing
\* set with the same total voters required (sum of margin + 1) as
\* brute_force_swing_states returns for the same states and ec_votes_needed.
C1_SolversAgreeOnVoters ==
    FreshCall("move_min_voters") =>
        SumVoters(call.ret)
            = SumVoters(brute_force_swing_states(call.ws, call.arg))

\* C2: when some subset of winner_states reaches ec_votes, the subset that
\* brute_force_swing_states returns reaches ec_votes and its sum of
\* (margin + 1) is the least among the subsets that do.
C2_BruteForceMinimal ==
    (call.op = "brute_force_swing_states" /\ FlipSets(call.ws, call.arg) # {}) =>
        /\ SumEc(call.ret) >= call.arg
        /\ SumVoters(call.ret) = MinVoters(call.ws, call.arg)

\* C3: for 0 < ec_votes_needed <= T and an empty memo at the start,
\* move_min_voters returns the states move_max_voters(winner_states,
\* T - ec_votes_needed) does not choose; they carry at least ec_votes_needed
\* EC votes and the least sum of (margin + 1) among the subsets that do.
C3_MoveMinIsMinimalComplement ==
    (FreshCall("move_min_voters")
        /\ 0 < call.arg /\ call.arg <= SumEc(call.ws)) =>
        /\ call.ret = NotIn(call.ws,
                move_max_voters(call.ws, SumEc(call.ws) - call.arg, EmptyMemo).ret)
        /\ IsSelectionOf(call.ret, call.ws)
        /\ SumEc(call.ret) >= call.arg
        /\ SumVoters(call.ret) = MinVoters(call.ws, call.arg)

\* C3 witness: such a call that returned some, but not all, of three states
C3_Witness ==
    /\ FreshCall("move_min_voters")
    /\ 0 < call.arg /\ call.arg <= SumEc(call.ws)
    /\ Len(call.ws) >= 3
    /\ Len(call.ret) >= 1 /\ Len(call.ret) < Len(call.ws)

\* C7: whatever calls came before, move_max_voters(winner_states, bound)
\* returns only elements of its own winner_states, of summed weight <= bound
\* and of the same total value as a call made with an empty memo.
C7_NoMemoLeak ==
    call.op = "move_max_voters" =>
        /\ IsSelectionOf(call.ret, call.ws)
        /\ SumEc(call.ret) <= call.arg
        /\ SumVoters(call.ret)
              = SumVoters(move_max_voters(call.ws, call.arg, EmptyMemo).ret)

\* C9: when ec_votes_needed exceeds the total EC votes of winner_states,
\* move_min_voters returns the empty list.
C9_EmptyWhenUnreachable ==
    (call.op = "move_min_voters" /\ call.arg > SumEc(call.ws)) =>
        call.ret = <<>>

\* C10: for a bound >= 0 and an empty memo at the start, move_max_voters
\* returns a subset of winner_states of summed EC votes <= bound whose sum of
\* (margin + 1) is the largest among such subsets.
C10_MoveMaxIsOptimal ==
    (FreshCall("move_max_voters") /\ call.arg >= 0) =>
        /\ IsSelectionOf(call.ret, call.ws)
        /\ SumEc(call.ret) <= call.arg
        /\ SumVoters(call.ret) = MaxVoters(call.ws, call.arg)

\* C10 witness: a call on three states that had to leave some state out
C10_Witness ==
    /\ FreshCall("move_max_voters")
    /\ Len(call.ws) >= 3
    /\ call.arg < SumEc(call.ws)
    /\ Len(call.ret) >= 1 /\ Len(call.ret) < Len(call.ws)

\* the totals of a selection: voters required (sum of margin + 1) and
\* EC votes flipped
TotalsOf(selection) == <<SumVoters(selection), SumEc(selection)>>

\* the last call is a later call of the kept function on the kept arguments
IsRepetition ==
    /\ noted # None
    /\ ncalls > noted[1].at
    /\ call.op = noted[1].op
    /\ call.ws = noted[1].ws
    /\ call.arg = noted[1].arg

-----------------------------------------------------------------------------
(* Properties of the planner *)

\* positions of the states the overall winner did not win when the call began
DonorPositions == {k \in 1..Len(election0) : ~In(election0[k], winner_states(election0))}

SwingPositions == {swing_states[k] : k \in 1..Len(swing_states)}

RECURSIVE SumOver(_, _)
\* the sum of the values of the function f over the set S of its domain
SumOver(f, S) ==
    IF S = {} THEN 0
    ELSE LET x == CHOOSE x \in S : TRUE IN f[x] + SumOver(f, S \ {x})

\* voters the recorded transfers bring to the state named nm
Received(nm) == SumOver(flip_map, {key \in DOMAIN flip_map : key[2] = nm})

\* the names no voter may be moved from
ProtectedNames == {pride[i] : i \in 1..Len(pride)}

\* donors that may give: loser-held and not protected
EligibleDonors == {k \in DonorPositions : get_name(election0[k]) \notin ProtectedNames}

TotalSlack == SumOver([k \in EligibleDonors |-> get_margin(election0[k]) - 1],
                      EligibleDonors)

TotalDemand == SumOver([k \in SwingPositions |-> get_margin(election0[k]) + 1],
                       SwingPositions)

\* C4: when relocate_voters returns a plan, the transfers to each swing state
\* add up to the margin the state had before planning plus 1.
C4_SwingReceivesMarginPlusOne ==
    pc = "done" =>
        \A k \in SwingPositions :
            Received(get_name(election0[k])) = get_margin(election0[k]) + 1

\* C5: when the slack of the eligible donors (sum of margin - 1 over the
\* loser-held states that are not protected) is less than the demand of the
\* swing states (sum of margin + 1), relocate_voters returns None, not a plan.
C5_NoPlanWithoutSupply ==
    (TotalSlack < TotalDemand) => pc # "done"

\* C6: at every point of a relocate_voters call (swing_states among the
\* winner-held states, every margin >= 1 at the start) every loser-held state
\* keeps a margin >= 1 and the local winner it had when the call started.
C6_DonorsStayWon ==
    \A k \in DonorPositions :
        /\ get_margin(election[k]) >= 1
        /\ get_winner(election[k]) = get_winner(election0[k])

\* C6 witness: a donor has given all its slack and a second one a part of its own
C6_Witness ==
    /\ pc \in {"done", "failed"}
    /\ \E j, k \in DonorPositions :
          /\ j # k
          /\ get_margin(election0[j]) > 1 /\ get_margin(election[j]) = 1
          /\ get_margin(election[k]) < get_margin(election0[k])

\* C8: no recorded transfer has as its source a state named in
\* states_with_pride or a state whose margin was 1 when planning started.
C8_ProtectedAndNoSlackNeverGive ==
    \A key \in DOMAIN flip_map :
        \A k \in 1..Len(election0) :
            get_name(election0[k]) = key[1] =>
                /\ key[1] \notin ProtectedNames
                /\ get_margin(election0[k]) # 1

\* C8 witness: a transfer was recorded in a call where a protected loser-held
\* state had slack to give
C8_Witness ==
    /\ pc \in {"done", "failed"}
    /\ DOMAIN flip_map # {}
    /\ \E k \in DonorPositions :
          get_name(election0[k]) \in ProtectedNames /\ get_margin(election0[k]) > 1

\* the sum of all amounts recorded in a transfers mapping
SumOfTransfers(map) == SumOver(map, DOMAIN map)

\* C11: in every plan relocate_voters returns (distinct state names, margins
\* >= 1 at the start), total_voters_moved is the sum of the amounts of the
\* transfers mapping and every recorded amount is a strictly positive integer.
C11_TotalIsSumOfPositiveTransfers ==
    (pc = "done" /\ result # None) =>
        LET plan == result[1]
        IN  /\ plan[1] = SumOfTransfers(plan[2])
            /\ \A key \in DOMAIN plan[2] : plan[2][key] \in Nat \ {0}

\* C11 witness: a plan in which one swing state received from two donors
C11_Witness ==
    /\ pc = "done" /\ result # None
    /\ \E j, k \in DOMAIN result[1][2] : j # k /\ j[2] = k[2]

\* voters the recorded transfers take from the state named nm
Given(nm) == SumOver(flip_map, {key \in DOMAIN flip_map : key[1] = nm})

\* all votes cast in a state
VotesCast(state) == state.dem + state.rep

\* the votes of the candidate who won the state `before`, counted in `state`
VotesOfWinner(state, before) ==
    IF get_winner(before) = "dem" THEN state.dem ELSE state.rep

\* the votes of the candidate who lost the state `before`, counted in `state`
VotesOfLoser(state, before) ==
    IF get_winner(before) = "dem" THEN state.rep ELSE state.dem

\* C17: when relocate_voters returns None, every transfer recorded so far is
\* still applied to the records (a donor's winning candidate has lost what
\* the donor gave, a recipient has gained the voters it received), and a
\* state that took part in no transfer has the vote totals it started with.
C17_NoRollbackOnFailure ==
    pc = "failed" =>
        /\ result = None
        /\ Len(election) = Len(election0)
        /\ \A k \in 1..Len(election0) :
              LET before == election0[k]
                  after == election[k]
                  nm == get_name(before)
              IN  /\ get_name(after) = nm
                  /\ get_ecvotes(after) = get_ecvotes(before)
                  /\ VotesCast(after) = VotesCast(before) + Received(nm) - Given(nm)
                  /\ Given(nm) > 0 =>
                        /\ VotesOfWinner(after, before)
                              = VotesOfWinner(before, before) - Given(nm)
                        /\ VotesOfLoser(after, before) = VotesOfLoser(before, before)
                  /\ (Given(nm) = 0 /\ Received(nm) = 0) => after = before

\* C17 witness: the call failed at a later swing state after a transfer to an
\* earlier one, with a state that took part in no transfer
C17_Witness ==
    /\ pc = "failed"
    /\ \E key \in DOMAIN flip_map :
          \E j \in 1..(si - 1) : key[2] = get_name(election0[swing_states[j]])
    /\ \E k \in 1..Len(election0) :
          Given(get_name(election0[k])) = 0 /\ Received(get_name(election0[k])) = 0

-----------------------------------------------------------------------------
(* Properties of the election queries *)

\* the states of el whose local winner is `side`, in the order of el
HeldBy(el, side) ==
    StatesAt(el, PositionsFrom([k \in 1..Len(el) |-> get_winner(el[k]) = side], 1))

\* C12: the states winner_states returns are those won by the winner that
\* election_winner names, and their summed EC votes strictly exceed the
\* summed EC votes of all the other states, for any election.
C12_WinnerHoldsMajority ==
    call.op = "winner_states" =>
        LET held == call.ret.states
            pair == election_winner(call.ws)
        IN  /\ held = HeldBy(call.ws, pair[1])
            /\ SumEc(held) > SumEc(HeldBy(call.ws, pair[2]))

\* C13: election_winner on an empty list of records raises; it returns no
\* (winner, loser) pair.
C13_EmptyElectionFails ==
    (call.op = "election_winner" /\ call.ws = <<>>) =>
        DOMAIN call.ret = DOMAIN Raised("DataError")

\* C14: for every election and every total >= 0, ec_votes_to_flip returns
\* floor(total/2) + 1 minus the summed EC votes of the states the overall
\* winner does not hold, zero and negative differences included.
C14_FlipIsFloorHalfPlusOne ==
    call.op = "ec_votes_to_flip" =>
        call.ret.votes = (call.arg \div 2) + 1
                            - SumEc(HeldBy(call.ws, election_winner(call.ws)[2]))

\* the set of positions the i-th list of combinations stands for: position j
\* is in it when digit j, most significant first, of the n-digit binary
\* number i - 1 is 1
PositionsOfIndex(i, n) == {j \in 1..n : ((i - 1) \div (2 ^ (n - j))) % 2 = 1}

\* C16: combinations(L) returns 2^n lists for n = len(L); the i-th list holds
\* the elements of L at the positions marked by the n-digit binary number
\* i - 1 (most significant digit for L[0]), in their order in L; so every
\* subset of positions appears, the empty one and all of L included, and
\* none twice.
C16_CombinationsIsPowersetInBinaryOrder ==
    call.op = "combinations" =>
        LET L == call.ws
            n == Len(L)
            powerset == call.ret.powerset
        IN  /\ Len(powerset) = 2 ^ n
            /\ \A i \in 1..Len(powerset) :
                  powerset[i] = SubAt(L, PositionsOfIndex(i, n))
            /\ \A S \in SUBSET (1..n) :
                  \E i \in 1..Len(powerset) : powerset[i] = SubAt(L, S)
            /\ \A i, j \in 1..Len(powerset) : i # j => powerset[i] # powerset[j]
            /\ powerset[1] = <<>> /\ powerset[Len(powerset)] = L

\* C16 witness: the eight lists of a list of three states
C16_Witness ==
    /\ call.op = "combinations"
    /\ Len(call.ws) = 3
    /\ Len(call.ret.powerset) = 8
    /\ call.ret.powerset[4] = <<call.ws[2], call.ws[3]>>


====
